---- MODULE Spec2Model ----
(***************************************************************************)
(* A model of src/main5.py, a Flask application over one SQLite database:  *)
(* the tables, the cookie session, the Twilio configuration, and one       *)
(* action per route handler.  Every handler runs inside its decorators     *)
(* (login_required, roles_required) and ends by recording its response in  *)
(* resp and the gateway calls it made in outbox.  An assign request can    *)
(* also be followed statement by statement: pending holds, for each worker *)
(* of the server, the request it is in the middle of.                      *)
(***************************************************************************)
EXTENDS Integers, Sequences, FiniteSets, TLC

VARIABLES users, incidents, volunteers, resources, hospitals, shelters, tasks,
          session, twilio_client, TWILIO_WHATSAPP_FROM, TWILIO_SMS_FROM,
          resp, outbox, pending

store == <<users, incidents, volunteers, resources, hospitals, shelters, tasks>>
config == <<twilio_client, TWILIO_WHATSAPP_FROM, TWILIO_SMS_FROM>>
vars == <<users, incidents, volunteers, resources, hospitals, shelters, tasks,
          session, twilio_client, TWILIO_WHATSAPP_FROM, TWILIO_SMS_FROM,
          resp, outbox, pending>>

(* ---------------- bounds of the model ---------------- *)
\* The rows the requests of one behaviour may add to the tables, all told.
MaxNewRows == 2

(* ---------------- values ---------------- *)
\* SQL NULL, and Python's None for a form field that is absent.
NULL == "<NULL>"

\* sha256(p.encode()).hexdigest(): a digest that determines its input.
sha256(p) == <<"sha256", p>>

\* str.strip() on the strings the requests carry.
strip(s) ==
  CASE s = " admin " -> "admin"
    [] s = " medic " -> "medic"
    [] s = " pw " -> "pw"
    [] s = "   " -> ""
    [] OTHER -> s

\* int(s): the parsed integer, or an exception (ValueError, TypeError for
\* None, and sqlite3's OverflowError when the value is bound: all unhandled).
int(s) ==
  CASE s = "1" -> [ok |-> TRUE, val |-> 1]
    [] s = "3" -> [ok |-> TRUE, val |-> 3]
    [] s = " 4 " -> [ok |-> TRUE, val |-> 4]
    [] s = "9" -> [ok |-> TRUE, val |-> 9]
    [] s = "-2" -> [ok |-> TRUE, val |-> 0 - 2]
    [] OTHER -> [ok |-> FALSE, val |-> 0]

\* float(s), in hundredths of a degree: a number, NaN, or an exception
\* (ValueError, or TypeError for None).
float(s) ==
  CASE s = "28.61" -> [ok |-> TRUE, nan |-> FALSE, val |-> 2861]
    [] s = "77.21" -> [ok |-> TRUE, nan |-> FALSE, val |-> 7721]
    [] s = "nan" -> [ok |-> TRUE, nan |-> TRUE, val |-> 0]
    [] OTHER -> [ok |-> FALSE, nan |-> FALSE, val |-> 0]

\* A REAL column holds <<x>> for the number x and <<>> for NULL.  Binding a
\* Python float: sqlite3 stores NaN as NULL.
bind_real(f) == IF f.nan THEN <<>> ELSE <<f.val>>

\* Comparing a bound text parameter with an INTEGER column: the text gets
\* integer affinity when it is a well-formed number, and matches no row else.
id_of(s) ==
  CASE s = "1" -> 1
    [] s = "2" -> 2
    [] s = "3" -> 3
    [] s = "4" -> 4
    [] s = "6" -> 6
    [] s = " 3" -> 3
    [] s = "99" -> 99
    [] OTHER -> 0

(* ---------------- init_db: the seeded tables ---------------- *)
SeedUsers == <<
  [username |-> "admin", password_hash |-> sha256("admin123"), role |-> "admin", contact |-> "+1234567890"],
  [username |-> "reporter1", password_hash |-> sha256("reporter123"), role |-> "reporter", contact |-> "+1234567891"],
  [username |-> "volunteer1", password_hash |-> sha256("volunteer123"), role |-> "volunteer", contact |-> "+1234567892"],
  [username |-> "viewer1", password_hash |-> sha256("viewer123"), role |-> "viewer", contact |-> ""],
  [username |-> "coordinator1", password_hash |-> sha256("coord123"), role |-> "coordinator", contact |-> "+1234567893"] >>

SeedHospitals == <<
  [name |-> "AIIMS Rishikesh", capacity |-> 800],
  [name |-> "KGMU Lucknow", capacity |-> 1200],
  [name |-> "Apollo Delhi", capacity |-> 900],
  [name |-> "CMC Vellore", capacity |-> 1000],
  [name |-> "PGIMER Chandigarh", capacity |-> 1100] >>

SeedShelters == <<
  [name |-> "Dehradun Stadium", capacity |-> 2000],
  [name |-> "Lucknow Expo", capacity |-> 1500],
  [name |-> "Noida Indoor", capacity |-> 1800],
  [name |-> "Mumbai NSS Hall", capacity |-> 2200] >>

SeedVolunteers == <<
  [name |-> "Aarav", phone |-> "+919000000011"],
  [name |-> "Diya", phone |-> "+919000000012"],
  [name |-> "Kabir", phone |-> "+919000000013"],
  [name |-> "Meera", phone |-> "+919000000014"] >>

\* A volunteers table kept from an earlier run (init_db seeds only an empty
\* table): two rows have lost their phone, one to '' and one to NULL.
KeptVolunteers == <<
  [name |-> "Aarav", phone |-> "+919000000011"],
  [name |-> "Diya", phone |-> ""],
  [name |-> "Kabir", phone |-> "+919000000013"],
  [name |-> "Meera", phone |-> NULL] >>

SeedIncidents == <<
  [type |-> "Debris Removal", severity |-> 4, lat |-> <<2862>>, lng |-> <<7722>>, status |-> "open"],
  [type |-> "Medical Aid", severity |-> 5, lat |-> <<2686>>, lng |-> <<8096>>, status |-> "open"],
  [type |-> "Shelter Request", severity |-> 3, lat |-> <<3033>>, lng |-> <<7804>>, status |-> "closed"],
  [type |-> "Search & Rescue", severity |-> 5, lat |-> <<2853>>, lng |-> <<7739>>, status |-> "in_progress"],
  [type |-> "Resource Request", severity |-> 2, lat |-> <<1909>>, lng |-> <<7289>>, status |-> "open"] >>

SeedResources == <<
  [id |-> 1, type |-> "Earthmover", qty |-> 2, location |-> "Central Warehouse"],
  [id |-> 2, type |-> "Medical Kits", qty |-> 50, location |-> "Mobile Unit 1"],
  [id |-> 3, type |-> "Food Kits", qty |-> 200, location |-> "Central Warehouse"] >>

\* The module-level Twilio settings (lines 32-47): whether a client was built,
\* and the two sender numbers ('' when unset; the WhatsApp one has a default).
Deployments == {
  [client |-> FALSE, whatsapp |-> "whatsapp:+14155238886", sms |-> ""],
  [client |-> TRUE, whatsapp |-> "whatsapp:+14155238886", sms |-> ""],
  [client |-> TRUE, whatsapp |-> "whatsapp:+14155238886", sms |-> "+15005550006"],
  [client |-> TRUE, whatsapp |-> "", sms |-> "+15005550006"] }

\* The rows added since init_db (resources also lose rows).
NewRows ==
  (Len(users) - Len(SeedUsers)) + (Len(incidents) - Len(SeedIncidents))
    + Len(tasks) + (Len(resources) - Len(SeedResources))

\* The threads of the development server (app.run, threaded by default) that
\* can each be inside a request.
WorkerList == <<"w1", "w2">>
Workers == {WorkerList[n] : n \in 1..Len(WorkerList)}

\* A worker that is between requests.  Inside an assign request it holds the
\* two form values and the rows its SELECTs fetched (incident, volunteer).
Idle == [pc |-> "idle", incident_id |-> NULL, volunteer_id |-> NULL,
         incident |-> NULL, volunteer |-> NULL]

\* Some connection holds SQLite's write lock: it has written and not yet
\* committed.  Another connection's write waits for the lock (five seconds by
\* default) and then raises sqlite3.OperationalError.
locked == \E w \in Workers : pending[w].pc \in {"inserted", "updated"}

NoResponse == [op |-> "", code |-> 0, flash |-> <<>>, sent |-> 0, failed |-> 0, body |-> <<>>]

Init ==
  /\ users = SeedUsers
  /\ incidents = SeedIncidents
  /\ volunteers \in {SeedVolunteers, KeptVolunteers}
  /\ resources = SeedResources
  /\ hospitals = SeedHospitals
  /\ shelters = SeedShelters
  /\ tasks = <<>>
  /\ session = <<>>
  /\ \E d \in Deployments :
       /\ twilio_client = d.client
       /\ TWILIO_WHATSAPP_FROM = d.whatsapp
       /\ TWILIO_SMS_FROM = d.sms
  /\ resp = NoResponse
  /\ outbox = <<>>
  /\ pending = [w \in Workers |-> Idle]

(* ---------------- helpers ---------------- *)
\* logged_in(): the session holds a user.
logged_in == session # <<>>

\* The response of a handler: the route, the HTTP status, the message the
\* template shows (message_sent, or message on the login page; <<>> for None),
\* the two counters of a broadcast, and the body of a JSON route.
Reply(op, code, flash) ==
  [op |-> op, code |-> code, flash |-> flash, sent |-> 0, failed |-> 0, body |-> <<>>]

Rows(table) == 1..Len(table)

\* WHERE id=? with a text parameter: the row (at most one) with that rowid.
ById(table, s) == {i \in Rows(table) : i = id_of(s)}

\* send_sms_alert(phone_number, message, use_whatsapp): success, the message
\* it returns, and whether twilio_client.messages.create was called;
\* delivered says whether that call returned (TRUE) or raised (FALSE).
send_sms_alert(phone_number, use_whatsapp, delivered) ==
  IF ~twilio_client
  THEN [success |-> FALSE, msg |-> "Twilio not configured", provider |-> FALSE]
  ELSE LET from_number == IF use_whatsapp THEN TWILIO_WHATSAPP_FROM ELSE TWILIO_SMS_FROM
       IN IF from_number = ""
          THEN [success |-> FALSE, msg |-> "No sender number configured", provider |-> FALSE]
          ELSE IF delivered
               THEN [success |-> TRUE, msg |-> "sent successfully", provider |-> TRUE]
               ELSE [success |-> FALSE, msg |-> "Error sending alert", provider |-> TRUE]

\* One entry of outbox: a call of send_sms_alert made by the request.
Call(phone_number, use_whatsapp, r) ==
  [to |-> phone_number, whatsapp |-> use_whatsapp, provider |-> r.provider,
   success |-> r.success]

(* ---------------- access control ---------------- *)
\* @roles_required(roles) as written on each route.
dashboard_roles == {"admin", "reporter", "coordinator", "viewer"}
alerts_roles == {"admin", "coordinator"}
report_roles == {"admin", "reporter"}
assign_roles == {"admin", "coordinator"}
volunteer_roles == {"volunteer"}
resources_roles == {"admin", "coordinator"}
predict_roles_as_dashboard == {"admin", "reporter", "coordinator", "viewer"}
predict_roles == {"admin", "reporter", "viewer"}

\* login_required: a request without a session is redirected to the login page.
login_required == logged_in

\* The check of line 724 without the role test.
roles_required_any(roles) == logged_in

\* roles_required(roles): the wrapped handler runs iff this holds; abort(403)
\* otherwise.
roles_required(roles) == logged_in /\ session[1].role \in roles

\* A request that ends before its handler runs: nothing but the response.
Refused(op, code) ==
  /\ resp' = Reply(op, code, <<>>)
  /\ outbox' = <<>>
  /\ UNCHANGED <<store, session, config, pending>>

\* A route under @login_required and @roles_required(roles).
Gated(op, roles, handler) ==
  IF ~login_required THEN Refused(op, 302)
  ELSE IF ~roles_required(roles) THEN Refused(op, 403)
  ELSE handler

(* ---------------- routes: session and users ---------------- *)
index ==
  /\ resp' = Reply("index", 302, <<>>)
  /\ outbox' = <<>>
  /\ UNCHANGED <<store, session, config, pending>>

\* Line 751 without the comparison of the digests.
login_row_any_password(table, u, p) ==
  {i \in Rows(table) : table[i].username = u}

\* Lines 749-751: the row SELECT ... WHERE username=? fetches, when the
\* digest of the submitted password equals its password_hash.
login_row(table, u, p) ==
  {i \in Rows(table) : table[i].username = u /\ sha256(p) = table[i].password_hash}

login(method, u, p) ==
  /\ outbox' = <<>>
  /\ UNCHANGED <<store, config, pending>>
  /\ IF method = "POST"
     THEN LET row == login_row(users, u, p)
          IN IF row # {}
             THEN /\ session' = << [id |-> CHOOSE i \in row : TRUE,
                                    username |-> users[CHOOSE i \in row : TRUE].username,
                                    role |-> users[CHOOSE i \in row : TRUE].role,
                                    contact |-> users[CHOOSE i \in row : TRUE].contact] >>
                  /\ resp' = Reply("login", 302, <<>>)
             ELSE /\ session' = session
                  /\ resp' = Reply("login", 200, <<"message", "Invalid credentials">>)
     ELSE /\ session' = session
          /\ resp' = Reply("login", 200, <<>>)

logout ==
  /\ session' = <<>>
  /\ resp' = Reply("logout", 302, <<>>)
  /\ outbox' = <<>>
  /\ UNCHANGED <<store, config, pending>>

\* The table without its UNIQUE constraint.
username_taken_never(username) == FALSE

\* users(username TEXT UNIQUE): the INSERT raises sqlite3.IntegrityError.
username_taken(username) == \E i \in Rows(users) : users[i].username = username

register(method, f_username, f_password, f_role, f_contact) ==
  LET username == strip(f_username)
      password == strip(f_password)
      role == strip(f_role)
      contact == strip(f_contact)
  IN /\ outbox' = <<>>
     /\ UNCHANGED <<incidents, volunteers, resources, hospitals, shelters, tasks,
                    session, config, pending>>
     /\ IF method # "POST"
        THEN /\ users' = users
             /\ resp' = Reply("register", 200, <<>>)
        ELSE IF username = "" \/ password = "" \/ role = ""
        THEN /\ users' = users
             /\ resp' = Reply("register", 200,
                              <<"error", "All fields except contact are required">>)
        ELSE IF username_taken(username)
        THEN \* except sqlite3.IntegrityError
             /\ users' = users
             /\ resp' = Reply("register", 200, <<"error", "Username already exists">>)
        ELSE /\ NewRows < MaxNewRows
             /\ users' = Append(users, [username |-> username,
                                        password_hash |-> sha256(password),
                                        role |-> role, contact |-> contact])
             /\ resp' = Reply("register", 302, <<>>)

(* ---------------- routes: alerts ---------------- *)
\* The for loop of a broadcast (lines 862-869 and 886-893): one call of
\* send_sms_alert per phone, counted as sent or failed; delivered[i] is the
\* provider's answer to the i-th call.
\* The loop with a failure ending it.
RECURSIVE broadcast_until_failure(_, _, _, _, _, _, _)
broadcast_until_failure(phones, use_whatsapp, delivered, i, sent_count, failed_count, calls) ==
  IF i > Len(phones)
  THEN [sent |-> sent_count, failed |-> failed_count, calls |-> calls]
  ELSE LET r == send_sms_alert(phones[i], use_whatsapp, delivered[i])
       IN IF r.success
          THEN broadcast_until_failure(phones, use_whatsapp, delivered, i + 1, sent_count + 1,
                         failed_count, Append(calls, Call(phones[i], use_whatsapp, r)))
          ELSE [sent |-> sent_count, failed |-> failed_count + 1,
                calls |-> Append(calls, Call(phones[i], use_whatsapp, r))]

RECURSIVE broadcast(_, _, _, _, _, _, _)
broadcast(phones, use_whatsapp, delivered, i, sent_count, failed_count, calls) ==
  IF i > Len(phones)
  THEN [sent |-> sent_count, failed |-> failed_count, calls |-> calls]
  ELSE LET r == send_sms_alert(phones[i], use_whatsapp, delivered[i])
       IN IF r.success
          THEN broadcast(phones, use_whatsapp, delivered, i + 1, sent_count + 1,
                         failed_count, Append(calls, Call(phones[i], use_whatsapp, r)))
          ELSE broadcast(phones, use_whatsapp, delivered, i + 1, sent_count,
                         failed_count + 1, Append(calls, Call(phones[i], use_whatsapp, r)))

HasValue(x) == x # NULL /\ x # ""

\* SELECT phone FROM volunteers WHERE phone IS NOT NULL AND phone != ''
volunteer_phones ==
  LET with_phone(v) == HasValue(v.phone)
      rows == SelectSeq(volunteers, with_phone)
  IN [i \in 1..Len(rows) |-> rows[i].phone]

\* SELECT contact FROM users WHERE contact IS NOT NULL AND contact != ''
user_contacts ==
  LET with_contact(u) == HasValue(u.contact)
      rows == SelectSeq(users, with_contact)
  IN [i \in 1..Len(rows) |-> rows[i].contact]

alerts_single(phone, use_whatsapp) ==
  \E delivered \in BOOLEAN :
    LET r == send_sms_alert(phone, use_whatsapp, delivered)
    IN /\ resp' = Reply("alerts", 200, <<IF r.success THEN "success" ELSE "error", r.msg>>)
       /\ outbox' = <<Call(phone, use_whatsapp, r)>>

alerts_all_volunteers ==
  LET phones == volunteer_phones
  IN IF Len(phones) = 0
     THEN /\ resp' = Reply("alerts", 200, <<"error", "No volunteers with phone numbers found">>)
          /\ outbox' = <<>>
     ELSE \E delivered \in [1..Len(phones) -> BOOLEAN] :
            LET b == broadcast(phones, TRUE, delivered, 1, 0, 0, <<>>)
            IN /\ resp' = [Reply("alerts", 200,
                                 IF b.sent > 0
                                 THEN <<"success", "Alert sent to volunteers">>
                                 ELSE <<"error", "Failed to send alerts to all volunteers">>)
                           EXCEPT !.sent = b.sent, !.failed = b.failed]
               /\ outbox' = b.calls

alerts_all_users ==
  LET contacts == user_contacts
  IN IF Len(contacts) = 0
     THEN /\ resp' = Reply("alerts", 200, <<"error", "No users with contact numbers found">>)
          /\ outbox' = <<>>
     ELSE \E delivered \in [1..Len(contacts) -> BOOLEAN] :
            LET b == broadcast(contacts, FALSE, delivered, 1, 0, 0, <<>>)
            IN /\ resp' = [Reply("alerts", 200, <<"success", "Alert sent to users">>)
                           EXCEPT !.sent = b.sent, !.failed = b.failed]
               /\ outbox' = b.calls

\* Line 840 without the test.
alerts_simulated_never == FALSE

\* elif not twilio_client: the alert is only simulated.
alerts_simulated == ~twilio_client

alerts_handler(method, recipient_type, f_phone, f_message) ==
  LET phone == strip(f_phone)
      message == strip(f_message)
  IN /\ UNCHANGED <<store, session, config, pending>>
     /\ IF method # "POST"
        THEN resp' = Reply("alerts", 200, <<>>) /\ outbox' = <<>>
        ELSE IF message = ""
        THEN resp' = Reply("alerts", 200, <<"error", "Message cannot be empty">>) /\ outbox' = <<>>
        ELSE IF alerts_simulated
        THEN resp' = Reply("alerts", 200, <<"warning", "Twilio not configured. Alert simulation">>)
             /\ outbox' = <<>>
        ELSE IF recipient_type = "volunteer" /\ phone # "" THEN alerts_single(phone, TRUE)
        ELSE IF recipient_type = "phone_number" /\ phone # "" THEN alerts_single(phone, FALSE)
        ELSE IF recipient_type = "all_volunteers" THEN alerts_all_volunteers
        ELSE IF recipient_type = "all_users" THEN alerts_all_users
        ELSE resp' = Reply("alerts", 200, <<>>) /\ outbox' = <<>>

alerts(method, recipient_type, f_phone, f_message) ==
  Gated("alerts", alerts_roles, alerts_handler(method, recipient_type, f_phone, f_message))

(* ---------------- routes: the incident workflow ---------------- *)
\* The row of line 919 with the coordinates swapped.
new_incident_swapped(incident_type, severity, lat, lng) ==
  [type |-> incident_type, severity |-> severity, lat |-> bind_real(lng),
   lng |-> bind_real(lat), status |-> "open"]

\* INSERT INTO incidents(type, severity, lat, lng, status, reported_at): the new row.
new_incident(incident_type, severity, lat, lng) ==
  [type |-> incident_type, severity |-> severity, lat |-> bind_real(lat),
   lng |-> bind_real(lng), status |-> "open"]

report_handler(method, f_type, f_severity, f_lat, f_lng) ==
  /\ outbox' = <<>>
  /\ UNCHANGED <<users, volunteers, resources, hospitals, shelters, tasks, session, config, pending>>
  /\ IF method # "POST"
     THEN incidents' = incidents /\ resp' = Reply("report", 200, <<>>)
     ELSE LET severity == int(f_severity)
              lat == float(f_lat)
              lng == float(f_lng)
          IN IF ~severity.ok \/ ~lat.ok \/ ~lng.ok \/ locked
             THEN \* ValueError, or OperationalError from the INSERT: an
                  \* exception no handler catches
                  incidents' = incidents /\ resp' = Reply("report", 500, <<>>)
             ELSE /\ NewRows < MaxNewRows
                  /\ incidents' = Append(incidents, new_incident(f_type, severity.val, lat, lng))
                  /\ resp' = Reply("report", 200, <<"success", "Incident reported successfully!">>)

report_incident(method, f_type, f_severity, f_lat, f_lng) ==
  Gated("report", report_roles, report_handler(method, f_type, f_severity, f_lat, f_lng))

\* Lines 955-960, after the commit: the alert to the volunteer.  Formatting
\* the incident's coordinates raises TypeError when one is NULL, which the
\* except clause reports as a failed assignment.
assign_notify(i, v) ==
  IF twilio_client /\ HasValue(volunteers[v].phone)
  THEN IF incidents[i].lat = <<>> \/ incidents[i].lng = <<>>
       THEN /\ resp' = Reply("assign_tasks", 200, <<"error", "Failed to assign task">>)
            /\ outbox' = <<>>
       ELSE \E delivered \in BOOLEAN :
              /\ resp' = Reply("assign_tasks", 200, <<"success", "Incident assigned">>)
              /\ outbox' = <<Call(volunteers[v].phone, TRUE,
                                  send_sms_alert(volunteers[v].phone, TRUE, delivered))>>
  ELSE /\ resp' = Reply("assign_tasks", 200, <<"success", "Incident assigned">>)
       /\ outbox' = <<>>

\* The row of line 948 as a plausible slip would write it.
new_task_open(i, v) == [incident_id |-> i, volunteer_id |-> v, status |-> "open"]

\* The row of line 948 with its two parameters in the other order.
new_task_swapped(i, v) == [incident_id |-> v, volunteer_id |-> i, status |-> "assigned"]

\* INSERT INTO tasks(incident_id, volunteer_id, status, created_at): the new row.
new_task(i, v) == [incident_id |-> i, volunteer_id |-> v, status |-> "assigned"]

\* The else branch of line 964 with the status update of line 952 moved out of
\* the if: every incident the request names is marked.
assign_missing_marks(incident_id) ==
  /\ incidents' = [j \in Rows(incidents) |->
                     IF j \in ById(incidents, incident_id)
                     THEN [incidents[j] EXCEPT !.status = "in_progress"]
                     ELSE incidents[j]]
  /\ tasks' = tasks
  /\ resp' = Reply("assign_tasks", 200, <<"error", "Incident or Volunteer not found.">>)
  /\ outbox' = <<>>

\* Lines 964-965: the incident or the volunteer was not found.
assign_missing(incident_id) ==
  /\ UNCHANGED <<incidents, tasks>>
  /\ resp' = Reply("assign_tasks", 200, <<"error", "Incident or Volunteer not found.">>)
  /\ outbox' = <<>>

assign_handler(method, incident_id, volunteer_id) ==
  /\ UNCHANGED <<users, volunteers, resources, hospitals, shelters, session, config, pending>>
  /\ IF method # "POST"
     THEN /\ UNCHANGED <<incidents, tasks>>
          /\ resp' = Reply("assign_tasks", 200, <<>>)
          /\ outbox' = <<>>
     ELSE LET incident == ById(incidents, incident_id)
              volunteer == ById(volunteers, volunteer_id)
          IN IF incident # {} /\ volunteer # {}
             THEN LET i == CHOOSE x \in incident : TRUE
                      v == CHOOSE x \in volunteer : TRUE
                  IN /\ NewRows < MaxNewRows
                     /\ tasks' = Append(tasks, new_task(i, v))
                     /\ incidents' = [incidents EXCEPT ![i].status = "in_progress"]
                     /\ assign_notify(i, v)
             ELSE assign_missing(incident_id)

assign_tasks(method, incident_id, volunteer_id) ==
  Gated("assign_tasks", assign_roles, assign_handler(method, incident_id, volunteer_id))

(* ---------------- assign_tasks, statement by statement ---------------- *)
\* Lines 932-943 with a test that the incident is not yet being handled.
assign_lookup_if_unassigned(w, incident_id, volunteer_id) ==
  LET incident == {i \in ById(incidents, incident_id) : incidents[i].status # "in_progress"}
      volunteer == ById(volunteers, volunteer_id)
  IN /\ UNCHANGED <<users, volunteers, resources, hospitals, shelters, session, config>>
     /\ IF incident # {} /\ volunteer # {}
        THEN /\ pending' = [pending EXCEPT ![w] =
                              [pc |-> "found", incident_id |-> incident_id,
                               volunteer_id |-> volunteer_id,
                               incident |-> incidents[CHOOSE x \in incident : TRUE],
                               volunteer |-> volunteers[CHOOSE x \in volunteer : TRUE]]]
             /\ UNCHANGED <<incidents, tasks, resp, outbox>>
        ELSE /\ assign_missing(incident_id)
             /\ pending' = pending

\* Lines 932-943 of a POST: the two SELECTs.  A request that finds both rows
\* goes on to its writes; one that does not is answered at once.
assign_lookup_handler(w, incident_id, volunteer_id) ==
  LET incident == ById(incidents, incident_id)
      volunteer == ById(volunteers, volunteer_id)
  IN /\ UNCHANGED <<users, volunteers, resources, hospitals, shelters, session, config>>
     /\ IF incident # {} /\ volunteer # {}
        THEN /\ pending' = [pending EXCEPT ![w] =
                              [pc |-> "found", incident_id |-> incident_id,
                               volunteer_id |-> volunteer_id,
                               incident |-> incidents[CHOOSE x \in incident : TRUE],
                               volunteer |-> volunteers[CHOOSE x \in volunteer : TRUE]]]
             /\ UNCHANGED <<incidents, tasks, resp, outbox>>
        ELSE /\ assign_missing(incident_id)
             /\ pending' = pending

assign_lookup(w, incident_id, volunteer_id) ==
  /\ pending[w].pc = "idle"
  /\ Gated("assign_tasks", assign_roles, assign_lookup_handler(w, incident_id, volunteer_id))

\* Line 948: the INSERT opens the connection's transaction and takes the
\* write lock; nothing is visible to other connections before the commit.
assign_insert(w) ==
  /\ pending[w].pc = "found"
  /\ ~locked
  /\ NewRows < MaxNewRows
  /\ pending' = [pending EXCEPT ![w].pc = "inserted"]
  /\ UNCHANGED <<store, session, config, resp, outbox>>

\* Line 948 when the lock is not released in time: OperationalError, caught
\* at line 961 (rollback, 'Failed to assign task').
assign_busy(w) ==
  /\ pending[w].pc = "found"
  /\ locked
  /\ pending' = [pending EXCEPT ![w] = Idle]
  /\ resp' = Reply("assign_tasks", 200, <<"error", "Failed to assign task">>)
  /\ outbox' = <<>>
  /\ UNCHANGED <<store, session, config>>

\* Line 952: the UPDATE, in the same transaction.
assign_update(w) ==
  /\ pending[w].pc = "inserted"
  /\ pending' = [pending EXCEPT ![w].pc = "updated"]
  /\ UNCHANGED <<store, session, config, resp, outbox>>

\* The transaction without its INSERT.
written_tasks_lost(w) == tasks

\* The tables as worker w's transaction has written them.
written_tasks(w) ==
  IF pending[w].pc \in {"inserted", "updated"}
  THEN Append(tasks, new_task(id_of(pending[w].incident_id), id_of(pending[w].volunteer_id)))
  ELSE tasks

written_incidents(w) ==
  IF pending[w].pc = "updated"
  THEN [incidents EXCEPT ![id_of(pending[w].incident_id)].status = "in_progress"]
  ELSE incidents

\* Lines 953-960: con.commit() makes both writes visible; then the alert and
\* the response.
assign_commit(w) ==
  /\ pending[w].pc = "updated"
  /\ tasks' = written_tasks(w)
  /\ incidents' = written_incidents(w)
  /\ assign_notify(id_of(pending[w].incident_id), id_of(pending[w].volunteer_id))
  /\ pending' = [pending EXCEPT ![w] = Idle]
  /\ UNCHANGED <<users, volunteers, resources, hospitals, shelters, session, config>>

\* A database file whose statements are durable one by one.
recovered_statement_by_statement ==
  IF \E w \in Workers : pending[w].pc \in {"inserted", "updated"}
  THEN LET w == CHOOSE x \in Workers : pending[x].pc \in {"inserted", "updated"}
       IN [tasks |-> written_tasks(w), incidents |-> written_incidents(w)]
  ELSE [tasks |-> tasks, incidents |-> incidents]

\* What the next process finds in the database file: SQLite rolls an
\* uncommitted transaction back, so the tables are as last committed.
recovered == [tasks |-> tasks, incidents |-> incidents]

\* The requests a crash cuts off: they get no response.
interrupted ==
  SelectSeq([n \in 1..Len(WorkerList) |-> pending[WorkerList[n]]],
            LAMBDA r : r.pc # "idle")

\* The server process dies and is started again (init_db seeds only empty
\* tables; the session cookie and the environment are unaffected).
crash ==
  /\ pending' = [w \in Workers |-> Idle]
  /\ tasks' = recovered.tasks
  /\ incidents' = recovered.incidents
  /\ resp' = [Reply("crash", 0, <<>>) EXCEPT !.body = interrupted]
  /\ outbox' = <<>>
  /\ UNCHANGED <<users, volunteers, resources, hospitals, shelters, session, config>>

\* SELECT * FROM tasks WHERE volunteer_id=? for the session's user id, each
\* joined with its incident.
volunteer_tasks_handler ==
  /\ resp' = [Reply("volunteer_tasks", 200, <<>>) EXCEPT
                !.body = SelectSeq([t \in Rows(tasks) |-> [id |-> t, task |-> tasks[t]]],
                                   LAMBDA r : /\ r.task.volunteer_id = session[1].id
                                              /\ r.task.incident_id \in Rows(incidents))]
  /\ outbox' = <<>>
  /\ UNCHANGED <<store, session, config, pending>>

volunteer_tasks ==
  Gated("volunteer_tasks", volunteer_roles, volunteer_tasks_handler)

\* Lines 1017-1022 without the last branch.
mirror_status_no_reopen(incident_id, status) ==
  IF status = "closed"
  THEN [incidents EXCEPT ![incident_id].status = "closed"]
  ELSE IF status = "in_progress"
  THEN [incidents EXCEPT ![incident_id].status = "in_progress"]
  ELSE incidents

\* Lines 1017-1022 with 'closed' as a final status.
mirror_status_closed_final(incident_id, status) ==
  IF incidents[incident_id].status = "closed"
  THEN incidents
  ELSE IF status \in {"closed", "in_progress", "open"}
  THEN [incidents EXCEPT ![incident_id].status = status]
  ELSE incidents

\* Lines 1017-1022 as one statement that binds the request's status.
mirror_status_raw(incident_id, status) ==
  [incidents EXCEPT ![incident_id].status = status]

\* Lines 1017-1022: the incident takes the status the request carries when
\* it is one of the three the code names.
mirror_status(incident_id, status) ==
  IF status = "closed"
  THEN [incidents EXCEPT ![incident_id].status = "closed"]
  ELSE IF status = "in_progress"
  THEN [incidents EXCEPT ![incident_id].status = "in_progress"]
  ELSE IF status = "open"
  THEN [incidents EXCEPT ![incident_id].status = "open"]
  ELSE incidents

update_handler(task_id, status) ==
  LET me == session[1].id
      named == ById(tasks, task_id)
  IN /\ outbox' = <<>>
     /\ UNCHANGED <<users, volunteers, resources, hospitals, shelters, session, config, pending>>
     \* UPDATE tasks SET status=? WHERE id=? AND volunteer_id=?
     /\ tasks' = [t \in Rows(tasks) |->
                    IF t \in named /\ tasks[t].volunteer_id = me /\ ~locked
                    THEN [tasks[t] EXCEPT !.status = status]
                    ELSE tasks[t]]
     /\ IF named = {} \/ locked
        THEN \* cur.fetchone() is None: TypeError (or OperationalError from the
             \* UPDATE), which no handler catches
             incidents' = incidents /\ resp' = Reply("update_task_status", 500, <<>>)
        ELSE LET incident_id == tasks[CHOOSE t \in named : TRUE].incident_id
             IN /\ incidents' = mirror_status(incident_id, status)
                /\ resp' = Reply("update_task_status", 302, <<>>)

update_task_status(task_id, status) ==
  Gated("update_task_status", volunteer_roles, update_handler(task_id, status))

(* ---------------- routes: pages and resources ---------------- *)
page(op) ==
  /\ resp' = Reply(op, 200, <<>>)
  /\ outbox' = <<>>
  /\ UNCHANGED <<store, session, config, pending>>

dashboard == Gated("dashboard", dashboard_roles, page("dashboard"))

predict == Gated("predict", predict_roles, page("predict"))

\* The qty parameter bound to the INTEGER column qty (numeric strings only).
qty_of(s) ==
  CASE s = "5" -> 5
    [] s = "-1" -> 0 - 1
    [] OTHER -> 0

\* INTEGER PRIMARY KEY without AUTOINCREMENT: one more than the largest rowid.
next_rowid(table) ==
  IF Len(table) = 0 THEN 1
  ELSE 1 + (CHOOSE m \in {table[i].id : i \in Rows(table)} :
              \A i \in Rows(table) : table[i].id <= m)

resources_handler(method, f_type, f_qty, f_location) ==
  /\ outbox' = <<>>
  /\ UNCHANGED <<users, incidents, volunteers, hospitals, shelters, tasks, session, config, pending>>
  /\ IF method # "POST"
     THEN resources' = resources /\ resp' = Reply("resources", 200, <<>>)
     ELSE /\ NewRows < MaxNewRows
          /\ resources' = Append(resources, [id |-> next_rowid(resources), type |-> f_type,
                                             qty |-> qty_of(f_qty), location |-> f_location])
          /\ resp' = Reply("resources", 200, <<"success", "Resource added successfully!">>)

resources_route(method, f_type, f_qty, f_location) ==
  Gated("resources", resources_roles, resources_handler(method, f_type, f_qty, f_location))

\* The DELETE of line 1056 followed by one on the tasks.
delete_handler_and_task(resource_id) ==
  /\ resources' = SelectSeq(resources, LAMBDA r : r.id # resource_id)
  /\ tasks' = IF resource_id \in Rows(tasks)
              THEN SubSeq(tasks, 1, resource_id - 1) \o SubSeq(tasks, resource_id + 1, Len(tasks))
              ELSE tasks
  /\ resp' = Reply("delete_resource", 302, <<>>)
  /\ outbox' = <<>>
  /\ UNCHANGED <<users, incidents, volunteers, hospitals, shelters, session, config, pending>>

\* The DELETE of line 1056 without its WHERE clause.
delete_handler_every_row(resource_id) ==
  /\ resources' = <<>>
  /\ resp' = Reply("delete_resource", 302, <<>>)
  /\ outbox' = <<>>
  /\ UNCHANGED <<users, incidents, volunteers, hospitals, shelters, tasks, session, config, pending>>

\* Lines 1055-1058: DELETE FROM resources WHERE id=?
delete_handler(resource_id) ==
  /\ resources' = SelectSeq(resources, LAMBDA r : r.id # resource_id)
  /\ resp' = Reply("delete_resource", 302, <<>>)
  /\ outbox' = <<>>
  /\ UNCHANGED <<users, incidents, volunteers, hospitals, shelters, tasks, session, config, pending>>

delete_resource(resource_id) ==
  Gated("delete_resource", resources_roles, delete_handler(resource_id))

(* ---------------- routes: the JSON reads (no decorator) ---------------- *)
json(op, body) ==
  /\ resp' = [Reply(op, 200, <<>>) EXCEPT !.body = body]
  /\ outbox' = <<>>
  /\ UNCHANGED <<store, session, config, pending>>

api_incidents ==
  json("api_incidents",
       [i \in Rows(incidents) |->
          [id |-> i, type |-> incidents[i].type, severity |-> incidents[i].severity,
           lat |-> incidents[i].lat, lng |-> incidents[i].lng,
           status |-> incidents[i].status]])

\* ORDER BY severity DESC: every order of the rows in S that is descending in
\* severity (SQL leaves the order of equal keys open).
RECURSIVE by_severity_desc(_)
by_severity_desc(S) ==
  IF S = {} THEN {<<>>}
  ELSE UNION { {<<i>> \o rest : rest \in by_severity_desc(S \ {i})} :
               i \in {j \in S : \A k \in S : incidents[j].severity >= incidents[k].severity} }

\* The WHERE clause of line 1080 as status != 'closed'.
hotspot_rows_not_closed == {i \in Rows(incidents) : incidents[i].status # "closed"}

\* WHERE status='open'
hotspot_rows == {i \in Rows(incidents) : incidents[i].status = "open"}

\* SELECT lat, lng, severity FROM incidents WHERE status='open' ORDER BY severity DESC
hotspots ==
  { [n \in 1..Len(order) |->
       [lat |-> incidents[order[n]].lat, lng |-> incidents[order[n]].lng,
        w |-> incidents[order[n]].severity]] :
    order \in by_severity_desc(hotspot_rows) }

api_hotspots == \E h \in hotspots : json("api_hotspots", h)

api_hospitals == json("api_hospitals", hospitals)

\* _fetch_sachet_feed(): three fixed records.
sachet_feed == <<"Heavy Rainfall Alert", "Flood Warning", "Tornado Warning">>

api_sachet_alerts == json("api_sachet_alerts", sachet_feed)

(* ---------------- the incident workflow ---------------- *)
\* The form values the requests of the workflow carry.
Methods == {"GET", "POST"}
IncidentTypes == {"Flood"}
Severities == {"3", "9", "high"}
Latitudes == {"28.61", "nan", "north"}
Longitudes == {"77.21"}
IncidentIds == {"1", "6", "99"}
VolunteerIds == {"2", " 3", "99"}
TaskIds == {"1", "2", "99"}
Statuses == {"open", "in_progress", "closed", "done"}

\* init_db on an empty database, with no SMS sender number configured.
InitFresh == Init /\ volunteers = SeedVolunteers /\ TWILIO_SMS_FROM = ""

Next ==
  \/ \E u \in {"admin", "volunteer1"}, p \in {"admin123", "volunteer123"} : login("POST", u, p)
  \/ logout
  \/ \E t \in IncidentTypes, s \in Severities, la \in Latitudes, lo \in Longitudes :
       report_incident("POST", t, s, la, lo)
  \/ \E i \in IncidentIds, v \in VolunteerIds : assign_tasks("POST", i, v)
  \/ \E t \in TaskIds, s \in Statuses : update_task_status(t, s)
  \/ api_hotspots

Spec == InitFresh /\ [][Next]_vars

(* ---------------- claims on the incident workflow ---------------- *)
Permitted(roles) == roles_required(roles)

\* C1: a handled assign request that names an existing incident and an
\* existing volunteer appends exactly one task, in status 'assigned' and
\* referencing that incident and that volunteer, and leaves the incident
\* 'in_progress' whatever its status was; every other incident and every
\* task that existed keeps its value.
C1_AssignAddsOneTask ==
  [][\A i \in IncidentIds, v \in VolunteerIds :
       (/\ resp'.op = "assign_tasks"
        /\ Permitted(assign_roles)
        /\ ById(incidents, i) # {}
        /\ ById(volunteers, v) # {}
        /\ assign_tasks("POST", i, v))
       => /\ Len(tasks') = Len(tasks) + 1
          /\ \A t \in Rows(tasks) : tasks'[t] = tasks[t]
          /\ tasks'[Len(tasks')] = [incident_id |-> id_of(i), volunteer_id |-> id_of(v),
                                    status |-> "assigned"]
          /\ Len(incidents') = Len(incidents)
          /\ \A j \in Rows(incidents) :
               IF j = id_of(i)
               THEN incidents'[j] = [incidents[j] EXCEPT !.status = "in_progress"]
               ELSE incidents'[j] = incidents[j]
          /\ UNCHANGED <<users, volunteers, resources, hospitals, shelters>>]_vars

\* C1 witness: incident 1 had one task, which its volunteer closed (so the
\* incident was 'closed'); a second assign has just added task 2 and the
\* incident is 'in_progress'.
C1_Witness ==
  /\ resp.op = "assign_tasks"
  /\ resp.flash = <<"success", "Incident assigned">>
  /\ Len(tasks) = 2
  /\ tasks[1] = [incident_id |-> 1, volunteer_id |-> 3, status |-> "closed"]
  /\ tasks[2] = [incident_id |-> 1, volunteer_id |-> 2, status |-> "assigned"]
  /\ incidents[1].status = "in_progress"

\* C2: when a volunteer updates a task they own to 'open', 'in_progress' or
\* 'closed', the task and its parent incident both have that status once
\* the request is done.
C2_OwnerUpdateMirrored ==
  [][\A t \in TaskIds, s \in {"open", "in_progress", "closed"} :
       (/\ resp'.op = "update_task_status"
        /\ Permitted(volunteer_roles)
        /\ \E k \in ById(tasks, t) : tasks[k].volunteer_id = session[1].id
        /\ update_task_status(t, s))
       => \A k \in ById(tasks, t) :
            /\ tasks'[k].status = s
            /\ incidents'[tasks[k].incident_id].status = s
            /\ incidents'[tasks'[k].incident_id].status = tasks'[k].status]_vars

\* C2 witness: volunteer1 (user 3) has just set their own task to 'open' and
\* the incident, which the assign had made 'in_progress', is 'open' again.
C2_Witness ==
  /\ resp.op = "update_task_status"
  /\ resp.code = 302
  /\ logged_in
  /\ \E k \in Rows(tasks) :
       /\ tasks[k].volunteer_id = session[1].id
       /\ tasks[k].status = "open"
       /\ tasks[k].incident_id = 1
       /\ incidents[1].status = "open"

\* C3: a handled assign request whose incident id or volunteer id names no
\* row changes no table and answers with the 'not found' error.
C3_AssignMissingNoChange ==
  [][\A i \in IncidentIds, v \in VolunteerIds :
       (/\ resp'.op = "assign_tasks"
        /\ Permitted(assign_roles)
        /\ (ById(incidents, i) = {} \/ ById(volunteers, v) = {})
        /\ assign_tasks("POST", i, v))
       => /\ UNCHANGED store
          /\ resp'.flash = <<"error", "Incident or Volunteer not found.">>
          /\ outbox' = <<>>]_vars

\* C3 witness: an assign has just been answered 'not found', after an
\* earlier assign had added a task.
C3_Witness ==
  /\ resp.op = "assign_tasks"
  /\ resp.flash = <<"error", "Incident or Volunteer not found.">>
  /\ Len(tasks) = 1

\* A REAL column holds the Python float f: NaN equals no stored value.
HoldsFloat(column, f) == ~f.nan /\ column = <<f.val>>

\* C6 as stated: every successful report adds exactly one incident, 'open',
\* with the submitted type, severity and coordinates, and changes no other.
C6_ReportStoresSubmitted ==
  [][\A ty \in IncidentTypes, s \in Severities, la \in Latitudes, lo \in Longitudes :
       (/\ resp'.op = "report"
        /\ resp'.flash = <<"success", "Incident reported successfully!">>
        /\ Permitted(report_roles)
        /\ report_incident("POST", ty, s, la, lo))
       => /\ Len(incidents') = Len(incidents) + 1
          /\ \A j \in Rows(incidents) : incidents'[j] = incidents[j]
          /\ incidents'[Len(incidents')].status = "open"
          /\ incidents'[Len(incidents')].type = ty
          /\ incidents'[Len(incidents')].severity = int(s).val
          /\ HoldsFloat(incidents'[Len(incidents')].lat, float(la))
          /\ HoldsFloat(incidents'[Len(incidents')].lng, float(lo))]_vars

\* C6 as amended: every successful report adds exactly one incident, 'open',
\* with the submitted type, the parsed severity, and each coordinate as
\* parsed, except that a coordinate parsed as NaN is stored as NULL; no other
\* incident and no other table changes.
C6_ReportAddsOpenIncident ==
  [][\A ty \in IncidentTypes, s \in Severities, la \in Latitudes, lo \in Longitudes :
       (/\ resp'.op = "report"
        /\ resp'.flash = <<"success", "Incident reported successfully!">>
        /\ Permitted(report_roles)
        /\ report_incident("POST", ty, s, la, lo))
       => /\ Len(incidents') = Len(incidents) + 1
          /\ \A j \in Rows(incidents) : incidents'[j] = incidents[j]
          /\ incidents'[Len(incidents')].status = "open"
          /\ incidents'[Len(incidents')].type = ty
          /\ incidents'[Len(incidents')].severity = int(s).val
          /\ IF float(la).nan
             THEN incidents'[Len(incidents')].lat = <<>>
             ELSE HoldsFloat(incidents'[Len(incidents')].lat, float(la))
          /\ IF float(lo).nan
             THEN incidents'[Len(incidents')].lng = <<>>
             ELSE HoldsFloat(incidents'[Len(incidents')].lng, float(lo))
          /\ UNCHANGED <<users, volunteers, resources, hospitals, shelters, tasks>>]_vars

\* C6 witness: a report with latitude 'nan' has just succeeded; the new
\* incident 6 is 'open' and its latitude is NULL.
C6_Witness ==
  /\ resp.op = "report"
  /\ resp.flash = <<"success", "Incident reported successfully!">>
  /\ Len(incidents) = Len(SeedIncidents) + 1
  /\ incidents[Len(incidents)].status = "open"
  /\ incidents[Len(incidents)].lat = <<>>
  /\ incidents[Len(incidents)].lng = <<7721>>

\* The number of positions of the sequence h that hold the entry e.
Count(h, e) == Cardinality({n \in 1..Len(h) : h[n] = e})

\* The hotspot entry that incident i gives.
Entry(i) == [lat |-> incidents[i].lat, lng |-> incidents[i].lng, w |-> incidents[i].severity]

\* The list h has exactly one entry per incident that is 'open', with that
\* incident's severity as weight, and no other entry.
OneEntryPerOpenIncident(h) ==
  LET open == {i \in Rows(incidents) : incidents[i].status = "open"}
  IN /\ Len(h) = Cardinality(open)
     /\ \A i \in open : Count(h, Entry(i)) = Cardinality({j \in open : Entry(j) = Entry(i)})

\* C10: in every reachable state every answer /api/hotspots can give, and
\* the answer it has just given, has exactly one entry per 'open' incident,
\* weighted by its severity, and none for any other incident.
C10_HotspotsAreOpenIncidents ==
  /\ \A h \in hotspots : OneEntryPerOpenIncident(h)
  /\ resp.op = "api_hotspots" => OneEntryPerOpenIncident(resp.body)

\* C10 witness: incident 1 (seeded 'open') was assigned, which made it
\* 'in_progress', then set back to 'open' by the volunteer, and is in the
\* hotspots just served; the new incident 6 was assigned and is not.
C10_Witness ==
  /\ resp.op = "api_hotspots"
  /\ \E k \in Rows(tasks) : tasks[k].incident_id = 1 /\ tasks[k].status = "open"
  /\ incidents[1].status = "open"
  /\ Count(resp.body, Entry(1)) = 1
  /\ Len(resp.body) = 3

(* ---------------- every route, one request each ---------------- *)
\* The routes under @roles_required.
GatedRoutes == {"dashboard", "predict", "report", "assign_tasks", "resources",
                "delete_resource", "alerts", "volunteer_tasks", "update_task_status"}

\* The request the callers of this specification send to each gated route.
report_request == \E m \in Methods : report_incident(m, "Flood", "3", "28.61", "77.21")
assign_request == \E m \in Methods : assign_tasks(m, "1", " 3")
resources_request == \E m \in Methods : resources_route(m, "Tents", "5", "Depot")
delete_request == delete_resource(1)
alerts_request == \E m \in Methods : alerts(m, "all_volunteers", "", "Evacuate now")
update_request == update_task_status("1", "closed")

Request(op) ==
  CASE op = "dashboard" -> dashboard
    [] op = "predict" -> predict
    [] op = "report" -> report_request
    [] op = "assign_tasks" -> assign_request
    [] op = "resources" -> resources_request
    [] op = "delete_resource" -> delete_request
    [] op = "alerts" -> alerts_request
    [] op = "volunteer_tasks" -> volunteer_tasks
    [] op = "update_task_status" -> update_request

SeedLogins == {<<"admin", "admin123">>, <<"reporter1", "reporter123">>,
               <<"volunteer1", "volunteer123">>, <<"viewer1", "viewer123">>,
               <<"coordinator1", "coord123">>, <<"admin", "letmein">>}

NextAccess ==
  \/ index
  \/ \E c \in SeedLogins : login("POST", c[1], c[2])
  \/ logout
  \/ dashboard
  \/ predict
  \/ report_request
  \/ assign_request
  \/ resources_request
  \/ delete_request
  \/ alerts_request
  \/ volunteer_tasks
  \/ update_request
  \/ api_incidents
  \/ api_hotspots
  \/ api_hospitals
  \/ api_sachet_alerts

SpecAccess == InitFresh /\ [][NextAccess]_vars

(* ---------------- claims on access control ---------------- *)
\* The access table as the specification states it (section 4.1 and 6).
PolicyTable ==
  [dashboard |-> {"admin", "reporter", "coordinator", "viewer"},
   predict |-> {"admin", "reporter", "viewer"},
   report |-> {"admin", "reporter"},
   assign_tasks |-> {"admin", "coordinator"},
   resources |-> {"admin", "coordinator"},
   delete_resource |-> {"admin", "coordinator"},
   alerts |-> {"admin", "coordinator"},
   volunteer_tasks |-> {"volunteer"},
   update_task_status |-> {"volunteer"}]

Forbidden(op) == Reply(op, 403, <<>>)

\* C4: a request to a gated route by a logged-in caller whose role is not in
\* the route's set is answered 403 and nothing else happens: no table, no
\* session and no configuration changes and no alert is sent.
C4_ForbiddenChangesNothing ==
  [][\A op \in GatedRoutes :
       (resp'.op = op /\ logged_in /\ session[1].role \notin PolicyTable[op] /\ Request(op))
       => /\ resp' = Forbidden(op)
          /\ UNCHANGED <<store, session, config>>
          /\ outbox' = <<>>]_vars

\* C4 witness: the viewer, logged in after the admin had assigned a task and
\* added a resource, has just been refused on assign_tasks.
C4_Witness ==
  /\ logged_in
  /\ session[1].role = "viewer"
  /\ resp = Forbidden("assign_tasks")
  /\ Len(tasks) = 1
  /\ Len(resources) = Len(SeedResources) + 1

\* C5: for a logged-in caller, a gated route answers 403 exactly when the
\* caller's role is outside the route's set in the table; a caller whose role
\* is in the set is never refused.
C5_PermittedSetsAreTheTable ==
  [][\A op \in GatedRoutes :
       (resp'.op = op /\ logged_in /\ Request(op))
       => (resp' = Forbidden(op) <=> session[1].role \notin PolicyTable[op])]_vars

\* C5 witness: the coordinator has just been let in to a route of its set
\* (resources, which added a row) having been logged in after a volunteer
\* closed a task.
C5_Witness ==
  /\ logged_in
  /\ session[1].role = "coordinator"
  /\ resp = Reply("resources", 200, <<"success", "Resource added successfully!">>)
  /\ Len(tasks) = 1
  /\ tasks[1].status = "closed"

(* ---------------- registration ---------------- *)
Usernames == {"admin", " admin ", "newvol", " medic ", ""}
Passwords == {"admin123", " pw ", "   "}
Roles == {"volunteer", "superuser", ""}
Contacts == {"+15550100"}
RegisterLogins == {<<"admin", "admin123">>, <<"newvol", "admin123">>, <<"newvol", " pw ">>,
                   <<"newvol", "pw">>,
                   <<" medic ", " pw ">>, <<"medic", "pw">>}

NextRegister ==
  \/ \E m \in Methods, u \in Usernames, p \in Passwords, r \in Roles, c \in Contacts :
       register(m, u, p, r, c)
  \/ \E l \in RegisterLogins : login("POST", l[1], l[2])
  \/ logout

SpecRegister == InitFresh /\ [][NextRegister]_vars

(* ---------------- claims on registration ---------------- *)
UniqueUsernames ==
  \A i \in Rows(users), j \in Rows(users) : users[i].username = users[j].username => i = j

DuplicateError == <<"error", "Username already exists">>
RequiredError == <<"error", "All fields except contact are required">>

\* C7 as stated: a register request whose username (as the handler reads it,
\* trimmed) is one an existing user has fails with the duplicate-username
\* error and leaves the users as they are; no two users share a username.
C7_DuplicateRejected ==
  /\ []UniqueUsernames
  /\ [][\A u \in Usernames, p \in Passwords, r \in Roles, c \in Contacts :
          (/\ resp'.op = "register"
           /\ \E i \in Rows(users) : users[i].username = strip(u)
           /\ register("POST", u, p, r, c))
          => /\ resp'.flash = DuplicateError
             /\ users' = users]_vars

\* C7 as amended: such a request fails with the duplicate-username error
\* when its password and role are non-empty (trimmed), and with the
\* required-fields error when one of them is empty; either way no user is
\* added and every existing user's record is unchanged; no two users share a
\* username.
C7_DuplicateAddsNoUser ==
  /\ []UniqueUsernames
  /\ [][\A u \in Usernames, p \in Passwords, r \in Roles, c \in Contacts :
          (/\ resp'.op = "register"
           /\ \E i \in Rows(users) : users[i].username = strip(u)
           /\ register("POST", u, p, r, c))
          => /\ resp'.flash = IF strip(p) = "" \/ strip(r) = ""
                              THEN RequiredError ELSE DuplicateError
             /\ resp'.code = 200
             /\ users' = users]_vars

\* C7 witness: 'newvol' is registered (user 6) and a further register has
\* just been refused as a duplicate.
C7_Witness ==
  /\ resp.op = "register"
  /\ resp.flash = DuplicateError
  /\ Len(users) = Len(SeedUsers) + 1
  /\ users[Len(users)].username = "newvol"

(* ---------------- alerts ---------------- *)
RecipientTypes == {"volunteer", "phone_number", "all_volunteers", "all_users", NULL}
Phones == {"", "+15550111"}
Messages == {"", "   ", "Evacuate now"}

NextAlerts ==
  \/ \E u \in {"admin", "viewer1"}, p \in {"admin123", "viewer123"} : login("POST", u, p)
  \/ logout
  \/ \E m \in Methods, t \in RecipientTypes, ph \in Phones, msg \in Messages :
       alerts(m, t, ph, msg)
  \/ \E i \in {"1", "99"}, v \in {"2", " 3"} : assign_tasks("POST", i, v)

SpecAlerts == Init /\ [][NextAlerts]_vars

(* ---------------- claims on alerts ---------------- *)
\* The volunteers that have a phone number.
Reachable == {v \in Rows(volunteers) : HasValue(volunteers[v].phone)}

\* C8: with a Twilio client configured, a handled broadcast to all
\* volunteers calls send_sms_alert exactly once for each volunteer that has a
\* non-empty phone and for nobody else, whatever calls fail, and ends with
\* sent + failed equal to the number of those volunteers; each call reaches
\* the provider when a WhatsApp sender number is configured.
C8_BroadcastCountsEveryVolunteer ==
  [][(/\ resp'.op = "alerts"
      /\ twilio_client
      /\ Permitted(alerts_roles)
      /\ \E ph \in Phones, msg \in Messages :
           strip(msg) # "" /\ alerts("POST", "all_volunteers", ph, msg))
     => /\ Len(outbox') = Cardinality(Reachable)
        /\ \A v \in Reachable :
             Cardinality({n \in 1..Len(outbox') : outbox'[n].to = volunteers[v].phone
                                                  /\ outbox'[n].whatsapp}) = 1
        /\ resp'.sent + resp'.failed = Cardinality(Reachable)
        /\ resp'.sent = Cardinality({n \in 1..Len(outbox') : outbox'[n].success})
        /\ TWILIO_WHATSAPP_FROM # "" => \A n \in 1..Len(outbox') : outbox'[n].provider]_vars

\* C8 witness: of four volunteers two have a phone; the first delivery failed
\* at the provider, the second was still attempted and succeeded.
C8_Witness ==
  /\ resp.op = "alerts"
  /\ volunteers = KeptVolunteers
  /\ Len(outbox) = 2
  /\ outbox[1].provider /\ ~outbox[1].success
  /\ outbox[2].success
  /\ resp.sent = 1
  /\ resp.failed = 1

SimulatedWarning == Reply("alerts", 200, <<"warning", "Twilio not configured. Alert simulation">>)

\* C9: with no Twilio client, a handled alerts submission whose message is
\* non-empty (trimmed, as the handler reads it) calls send_sms_alert for no
\* recipient, whatever the recipient type, and is answered 200 with the
\* 'not configured, simulated' warning; and a handled assign of an existing
\* incident to an existing volunteer adds its task and reports success
\* without calling send_sms_alert.
C9_NoProviderIsSimulated ==
  [][/\ (/\ resp'.op = "alerts"
         /\ ~twilio_client
         /\ Permitted(alerts_roles)
         /\ \E t \in RecipientTypes, ph \in Phones, msg \in Messages :
              strip(msg) # "" /\ alerts("POST", t, ph, msg))
        => (resp' = SimulatedWarning /\ outbox' = <<>> /\ UNCHANGED store)
     /\ (/\ resp'.op = "assign_tasks"
         /\ ~twilio_client
         /\ Permitted(assign_roles)
         /\ \E i \in IncidentIds, v \in VolunteerIds :
              /\ ById(incidents, i) # {}
              /\ ById(volunteers, v) # {}
              /\ assign_tasks("POST", i, v))
        => /\ resp' = Reply("assign_tasks", 200, <<"success", "Incident assigned">>)
           /\ outbox' = <<>>
           /\ Len(tasks') = Len(tasks) + 1]_vars

\* C9 witness: no client is configured; an assign has succeeded earlier and
\* an alert has just been answered with the warning.
C9_Witness ==
  /\ ~twilio_client
  /\ resp = SimulatedWarning
  /\ outbox = <<>>
  /\ Len(tasks) = 1
  /\ incidents[1].status = "in_progress"

(* ---------------- further claims on the incident workflow ---------------- *)
TaskStatuses == {"assigned", "open", "in_progress", "closed"}
IncidentStatuses == {"open", "in_progress", "closed"}

\* C11: a handled update_task_status request that names an existing task
\* whose volunteer_id is not the caller's id leaves that task's status and
\* the status of every incident as they were.
C11_NonOwnerChangesNothing ==
  [][\A t \in TaskIds, s \in Statuses :
       (/\ resp'.op = "update_task_status"
        /\ Permitted(volunteer_roles)
        /\ ById(tasks, t) # {}
        /\ tasks[id_of(t)].volunteer_id # session[1].id
        /\ update_task_status(t, s))
       => /\ tasks'[id_of(t)].status = tasks[id_of(t)].status
          /\ \A j \in Rows(incidents) : incidents'[j].status = incidents[j].status]_vars

\* C12: in every reachable state every task's status is one of assigned,
\* open, in_progress, closed.
C12_TaskStatusValid ==
  \A t \in Rows(tasks) : tasks[t].status \in TaskStatuses

\* C18: no request is answered with the server's error page (status 500,
\* the answer to an exception no handler catches).
C18_NoUnhandledError ==
  resp.code # 500

\* C19: in every reachable state every incident's status is one of open,
\* in_progress, closed.
C19_IncidentStatusValid ==
  \A j \in Rows(incidents) : incidents[j].status \in IncidentStatuses

\* C19 witness: the volunteer has set their task to a status outside the
\* three ('done'), which the task now has, and an incident was reported with
\* its form values; the incidents are as the invariant says.
C19_Witness ==
  /\ resp.op = "update_task_status"
  /\ resp.code = 302
  /\ Len(incidents) = Len(SeedIncidents) + 1
  /\ \E t \in Rows(tasks) : tasks[t].status = "done" /\ tasks[t].incident_id = 6
  /\ incidents[6].status = "in_progress"

\* C20: in every reachable state every incident's severity is between 1 and
\* 5, and so is every weight of a hotspots answer.
C20_SeverityInRange ==
  /\ \A j \in Rows(incidents) : incidents[j].severity \in 1..5
  /\ resp.op = "api_hotspots" => \A n \in 1..Len(resp.body) : resp.body[n].w \in 1..5

(* ---------------- concurrent requests and crashes ---------------- *)
\* The assign forms submitted: incident_id and volunteer_id.
StepAssigns == {<<"1", "2">>, <<"1", " 3">>, <<"6", " 3">>, <<"99", "2">>}
StepTaskIds == {"1"}
StepStatuses == {"closed"}
StepLogins == {<<"admin", "admin123">>, <<"volunteer1", "volunteer123">>}

NextSteps ==
  \/ \E l \in StepLogins : login("POST", l[1], l[2])
  \/ report_incident("POST", "Flood", "3", "28.61", "77.21")
  \/ \E w \in Workers, a \in StepAssigns : assign_lookup(w, a[1], a[2])
  \/ \E w \in Workers : assign_insert(w)
  \/ \E w \in Workers : assign_busy(w)
  \/ \E w \in Workers : assign_update(w)
  \/ \E w \in Workers : assign_commit(w)
  \/ \E t \in StepTaskIds, st \in StepStatuses : update_task_status(t, st)
  \/ crash

SpecSteps == InitFresh /\ [][NextSteps]_vars

(* ---------------- claims on concurrent requests and crashes ---------------- *)
\* Worker w's assign request is between its INSERT and its UPDATE.
BetweenWrites(w) == pending[w].pc = "inserted"

\* C13 as stated: a crash that interrupts an assign request between its two
\* writes leaves the incident of the request 'in_progress' and the tasks
\* without a task for the request.
C13_CrashLeavesIncidentInProgress ==
  [][\A w \in Workers :
       (/\ resp'.op = "crash"
        /\ BetweenWrites(w)
        /\ crash)
       => /\ incidents'[id_of(pending[w].incident_id)].status = "in_progress"
          /\ tasks' = tasks]_vars

\* C13 as amended: such a crash leaves the tables as they were last
\* committed: no task for the request, and the incident with the status it
\* had, which is 'in_progress' only if it was before.
C13_CrashLeavesStoreAsCommitted ==
  [][\A w \in Workers :
       (/\ resp'.op = "crash"
        /\ BetweenWrites(w)
        /\ crash)
       => /\ tasks' = tasks
          /\ incidents' = incidents
          /\ UNCHANGED <<users, volunteers, resources, hospitals, shelters>>]_vars

\* C13 witness: a crash has cut off an assign of incident 1 between its two
\* writes; the incident is 'open' and there is no task.
C13_Witness ==
  /\ resp.op = "crash"
  /\ Len(resp.body) = 1
  /\ resp.body[1].pc = "inserted"
  /\ resp.body[1].incident_id = "1"
  /\ incidents[1].status = "open"
  /\ tasks = <<>>

\* The incidents that report requests created.
Reported == {j \in Rows(incidents) : j > Len(SeedIncidents)}

\* C14: in every reachable state of the database, also after an assign
\* request failed or was cut off by a crash at any statement, every incident
\* that a report request created and that is not 'open' has a task that
\* references it.
C14_ReportedNotOpenHasTask ==
  \A j \in Reported :
    incidents[j].status # "open" => \E t \in Rows(tasks) : tasks[t].incident_id = j

\* C14 witness: the reported incident 6 was assigned and then closed by the
\* volunteer of its task.
C14_Witness ==
  /\ 6 \in Reported
  /\ incidents[6].status = "closed"
  /\ tasks = <<[incident_id |-> 6, volunteer_id |-> 3, status |-> "closed"]>>
  /\ resp.op = "update_task_status"

\* Incident i has a task in status 'assigned' for a volunteer other than v.
AssignedToAnother(i, v) ==
  \E t \in Rows(tasks) : /\ tasks[t].incident_id = i
                         /\ tasks[t].status = "assigned"
                         /\ tasks[t].volunteer_id # v

\* C15: nothing checks whether an incident is already assigned.  Whenever an
\* idle worker serves a coordinator's assign of an incident that already has
\* an 'assigned' task for another volunteer, the lookup finds the incident
\* and the request goes on to its writes; and every commit of a request,
\* whatever was committed since its lookup, adds its 'assigned' task, keeps
\* the tasks there are and reports success.
C15_AssignIgnoresAssignment ==
  /\ [](\A w \in Workers, a \in StepAssigns :
          (/\ Permitted(assign_roles)
           /\ pending[w].pc = "idle"
           /\ ById(incidents, a[1]) # {}
           /\ AssignedToAnother(id_of(a[1]), id_of(a[2])))
          => ENABLED (assign_lookup(w, a[1], a[2]) /\ pending'[w].pc = "found"))
  /\ [][\A w \in Workers :
          (/\ resp'.op = "assign_tasks"
           /\ pending[w].pc = "updated"
           /\ assign_commit(w))
          => /\ Len(tasks') = Len(tasks) + 1
             /\ \A t \in Rows(tasks) : tasks'[t] = tasks[t]
             /\ tasks'[Len(tasks')] = [incident_id |-> id_of(pending[w].incident_id),
                                       volunteer_id |-> id_of(pending[w].volunteer_id),
                                       status |-> "assigned"]
             /\ resp'.flash = <<"success", "Incident assigned">>]_vars

\* C15 witness: incident 1 has two tasks in status 'assigned', for
\* volunteers 2 and 3.
C15_Witness ==
  /\ Len(tasks) = 2
  /\ tasks[1].incident_id = 1 /\ tasks[2].incident_id = 1
  /\ tasks[1].status = "assigned" /\ tasks[2].status = "assigned"
  /\ tasks[1].volunteer_id # tasks[2].volunteer_id
  /\ resp.flash = <<"success", "Incident assigned">>

\* C17: in every reachable state of the database, under every interleaving
\* of the requests' statements and crashes, every task's incident_id is the
\* id of an incident and its volunteer_id the id of a volunteer.
C17_TasksReferenceExistingRows ==
  \A t \in Rows(tasks) : /\ tasks[t].incident_id \in Rows(incidents)
                         /\ tasks[t].volunteer_id \in Rows(volunteers)

\* C17 witness: a task for the reported incident 6 and volunteer 3 has been
\* committed while another request for incident 6 is past its lookup.
C17_Witness ==
  /\ tasks = <<[incident_id |-> 6, volunteer_id |-> 3, status |-> "assigned"]>>
  /\ resp.op = "assign_tasks"
  /\ \E w \in Workers : pending[w].pc = "found" /\ pending[w].incident_id = "6"

(* ---------------- claims on the order of statuses ---------------- *)
\* C16: incident status is not monotonic.  Whatever status an incident has,
\* the volunteer of one of its tasks can take it to each of open,
\* in_progress and closed with one update_task_status request, and a
\* coordinator can take it to in_progress with one assign request (while the
\* tables have room for the task).
C16_AnyStatusFromAny ==
  /\ \A t \in TaskIds, st \in IncidentStatuses :
       (/\ Permitted(volunteer_roles)
        /\ ById(tasks, t) # {}
        /\ tasks[id_of(t)].volunteer_id = session[1].id)
       => ENABLED (/\ update_task_status(t, st)
                   /\ incidents'[tasks[id_of(t)].incident_id].status = st)
  /\ \A i \in IncidentIds, v \in VolunteerIds :
       (/\ Permitted(assign_roles)
        /\ ById(incidents, i) # {}
        /\ ById(volunteers, v) # {}
        /\ NewRows < MaxNewRows)
       => ENABLED (/\ assign_tasks("POST", i, v)
                   /\ incidents'[id_of(i)].status = "in_progress")

\* C16 witness: incident 1 has two tasks of volunteer 3; the volunteer closed
\* the second, which closed the incident, and has then set the first to
\* 'open': the incident is 'open' again.
C16_Witness ==
  /\ resp.op = "update_task_status"
  /\ tasks = <<[incident_id |-> 1, volunteer_id |-> 3, status |-> "open"],
               [incident_id |-> 1, volunteer_id |-> 3, status |-> "closed"]>>
  /\ incidents[1].status = "open"

(* ---------------- further claims on registration ---------------- *)
UserRoles == {"admin", "coordinator", "reporter", "volunteer", "viewer"}

\* C21: in every reachable state every user's role is one of admin,
\* coordinator, reporter, volunteer, viewer.
C21_UserRoleValid ==
  \A i \in Rows(users) : users[i].role \in UserRoles

\* A login step with credentials that match a user opens a session for that
\* user's id, username, role and contact.
LoginOpensSession ==
  \A l \in RegisterLogins :
    (/\ resp'.op = "login"
     /\ login_row(users, l[1], l[2]) # {}
     /\ login("POST", l[1], l[2]))
    => /\ resp'.code = 302
       /\ \E i \in login_row(users, l[1], l[2]) :
            session' = <<[id |-> i, username |-> users[i].username,
                          role |-> users[i].role, contact |-> users[i].contact]>>

\* C26 as stated: after a register request with non-empty username u,
\* password p and role r has succeeded, the credentials (u, p), the same
\* strings, match a user whose username is u and whose role is r, and a
\* login with matching credentials opens that user's session.
C26_RegisterLoginRoundTrip ==
  [][/\ \A u \in Usernames, p \in Passwords, r \in Roles, c \in Contacts :
          (/\ resp'.op = "register"
           /\ resp'.code = 302
           /\ u # "" /\ p # "" /\ r # ""
           /\ register("POST", u, p, r, c))
          => \E i \in login_row(users', u, p) :
               users'[i].username = u /\ users'[i].role = r
     /\ LoginOpensSession]_vars

\* C26 as amended: after such a register request has succeeded, the trimmed
\* credentials (strip(u), strip(p)) match a user whose username is strip(u)
\* and whose role is strip(r), and the strings as submitted match that user
\* exactly when u and p have no leading or trailing whitespace; a login with
\* matching credentials opens that user's session.
C26_RegisterLoginTrimmed ==
  [][/\ \A u \in Usernames, p \in Passwords, r \in Roles, c \in Contacts :
          (/\ resp'.op = "register"
           /\ resp'.code = 302
           /\ u # "" /\ p # "" /\ r # ""
           /\ register("POST", u, p, r, c))
          => /\ \E i \in login_row(users', strip(u), strip(p)) :
                  users'[i].username = strip(u) /\ users'[i].role = strip(r)
             /\ login_row(users', u, p) # {} <=> (u = strip(u) /\ p = strip(p))
     /\ LoginOpensSession]_vars

\* C26 witness: ' medic ' was registered with password ' pw ' and role
\* 'volunteer'; the login as 'medic' with 'pw' has opened the session.
C26_Witness ==
  /\ resp.op = "login"
  /\ resp.code = 302
  /\ session # <<>>
  /\ session[1].id > Len(SeedUsers)
  /\ session[1].username = "medic"
  /\ session[1].role = "volunteer"
  /\ users[session[1].id].password_hash = sha256("pw")

(* ---------------- every route ---------------- *)
register_request == \E m \in Methods : register(m, "newvol", "admin123", "volunteer", "+15550100")

NextFrame ==
  \/ NextAccess
  \/ register_request

SpecFrame == InitFresh /\ [][NextFrame]_vars

(* ---------------- claims on what the routes leave alone ---------------- *)
\* The routes C22 names as leaving incidents and tasks alone.
OtherRoutes == {"login", "logout", "register", "resources", "delete_resource", "alerts",
                "dashboard", "predict", "volunteer_tasks", "api_incidents", "api_hotspots",
                "api_hospitals", "api_sachet_alerts"}

\* C22: a request to login, logout, register, resources, delete_resource,
\* alerts, dashboard, predict, volunteer_tasks or a JSON read leaves every
\* incident and every task as it was; a step that adds an incident is a
\* report, and a step that changes an incident's status is an assign or an
\* update_task_status.
C22_OtherRoutesKeepIncidentsAndTasks ==
  [][/\ resp'.op \in OtherRoutes => (incidents' = incidents /\ tasks' = tasks)
     /\ Len(incidents') # Len(incidents) => resp'.op = "report"
     /\ (\E j \in Rows(incidents) : incidents'[j].status # incidents[j].status)
          => resp'.op \in {"assign_tasks", "update_task_status"}]_vars

\* C22 witness: with a task assigned and its incident 'in_progress', a
\* register request has just added a user.
C22_Witness ==
  /\ resp.op = "register"
  /\ Len(users) = Len(SeedUsers) + 1
  /\ tasks = <<[incident_id |-> 1, volunteer_id |-> 3, status |-> "assigned"]>>
  /\ incidents[1].status = "in_progress"

\* Every row of the table is still there, under its id and with the same
\* values in the columns named.
Kept(before, after, columns) ==
  /\ Len(after) >= Len(before)
  /\ \A i \in Rows(before) : \A c \in columns : after[i][c] = before[i][c]

\* C23: no step removes a user, incident, volunteer, hospital, shelter or
\* task; a step that removes a resource is a delete_resource; and a handled
\* delete_resource(1) removes every resource whose id is 1 (there is at most
\* one), keeps the others as they are and in their order, and changes
\* nothing when no resource has id 1.
C23_OnlyResourcesAreRemoved ==
  [][/\ Kept(users, users', {"username", "password_hash", "role", "contact"})
     /\ Kept(incidents, incidents', {"type", "severity", "lat", "lng"})
     /\ Kept(volunteers, volunteers', {"name", "phone"})
     /\ Kept(hospitals, hospitals', {"name", "capacity"})
     /\ Kept(shelters, shelters', {"name", "capacity"})
     /\ Kept(tasks, tasks', {"incident_id", "volunteer_id"})
     /\ (\E n \in Rows(resources) : \A k \in Rows(resources') : resources'[k] # resources[n])
          => resp'.op = "delete_resource"
     /\ (/\ resp'.op = "delete_resource"
         /\ Permitted(resources_roles)
         /\ delete_resource(1))
        => LET gone == {n \in Rows(resources) : resources[n].id = 1}
           IN /\ Cardinality(gone) <= 1
              /\ Len(resources') = Len(resources) - Cardinality(gone)
              /\ \A k \in Rows(resources') : resources'[k].id # 1
              /\ \A n \in Rows(resources) \ gone :
                   resources'[n - Cardinality({g \in gone : g < n})] = resources[n]
              /\ gone = {} => resources' = resources]_vars

\* C23 witness: a resource was added and the resource with id 1 has just
\* been deleted; the three others are there, and so is the task.
C23_Witness ==
  /\ resp.op = "delete_resource"
  /\ resp.code = 302
  /\ Len(resources) = 3
  /\ \A k \in Rows(resources) : resources[k].id # 1
  /\ resources[3].type = "Tents"
  /\ Len(tasks) = 1

(* ---------------- claims on the outcome of deliveries ---------------- *)
\* C24: a handled assign of an existing incident to an existing volunteer
\* who is due a notification (a client is configured and the volunteer has a
\* phone) and to whom nothing is delivered still adds its task, leaves the
\* incident 'in_progress' and reports success.
C24_AssignIndependentOfDelivery ==
  [][\A i \in IncidentIds, v \in VolunteerIds :
       (/\ resp'.op = "assign_tasks"
        /\ Permitted(assign_roles)
        /\ twilio_client
        /\ ById(incidents, i) # {}
        /\ ById(volunteers, v) # {}
        /\ HasValue(volunteers[id_of(v)].phone)
        /\ assign_tasks("POST", i, v)
        /\ \A n \in 1..Len(outbox') : ~outbox'[n].success)
       => /\ Len(tasks') = Len(tasks) + 1
          /\ tasks'[Len(tasks')] = [incident_id |-> id_of(i), volunteer_id |-> id_of(v),
                                    status |-> "assigned"]
          /\ incidents'[id_of(i)].status = "in_progress"
          /\ resp'.flash = <<"success", "Incident assigned">>]_vars

\* The contacts a broadcast to the target goes to.
Contacted(target) ==
  IF target = "all_volunteers" THEN volunteer_phones ELSE user_contacts

\* C25: with a client configured, a handled broadcast to all_volunteers or
\* to all_users that has at least one contact is reported as 'success' if
\* and only if at least one delivery succeeded, and as 'error' when every
\* delivery failed.
C25_BroadcastOutcome ==
  [][\A t \in {"all_volunteers", "all_users"} :
       (/\ resp'.op = "alerts"
        /\ twilio_client
        /\ Permitted(alerts_roles)
        /\ Len(Contacted(t)) > 0
        /\ \E ph \in Phones, msg \in Messages :
             strip(msg) # "" /\ alerts("POST", t, ph, msg))
       => /\ resp'.flash[1] = "success" <=> \E n \in 1..Len(outbox') : outbox'[n].success
          /\ (\A n \in 1..Len(outbox') : ~outbox'[n].success) => resp'.flash[1] = "error"]_vars

====
